---- MODULE Spec2Model ----
(***************************************************************************)
(* The tunneling plugin of gloo's translator                               *)
(* (projects/gloo/pkg/plugins/tunneling/plugin.go).                        *)
(*                                                                         *)
(* plugin.GeneratedResources scans every route of every virtual host of    *)
(* every input route configuration.  A route whose action is a single      *)
(* cluster and whose upstream has an HTTP proxy hostname is rewritten to   *)
(* a generated "self" cluster; the first such route of each cluster also   *)
(* moves the cluster's transport socket to the generated cluster and       *)
(* generates the cluster / listener pair.  One action of the model is one  *)
(* iteration of the innermost loop, named after the branch it takes; the   *)
(* value of pc after a return is the source line of the return statement.  *)
(***************************************************************************)
EXTENDS Integers, Sequences, FiniteSets, TLC

VARIABLES
    inRouteConfigurations,  \* the route configurations, mutated in place
    inClusters,             \* the input clusters, mutated in place
    inListeners,            \* the input listeners (never read by the plugin)
    upstreams,              \* params.Snapshot.Upstreams, by upstream name
    generatedClusters,      \* local of GeneratedResources
    generatedListeners,     \* local of GeneratedResources
    processedClusters,      \* local of GeneratedResources (sets.String)
    scanOrder,              \* the routes in the order the range loops visit them
    pos,                    \* index in scanOrder of the route the loops are at
    pc,                     \* "scan", or "ret<line>" after a return
    ret,                    \* the returned (clusters, listeners, error)
    pass,                   \* number of the translation pass under way
    routes0,                \* inRouteConfigurations when this pass began
    clusters0,              \* inClusters when this pass began
    earlier                 \* what the earlier passes returned

vars == <<inRouteConfigurations, inClusters, inListeners, upstreams,
          generatedClusters, generatedListeners, processedClusters,
          scanOrder, pos, pc, ret, pass, routes0, clusters0, earlier>>

-----------------------------------------------------------------------------
(* Bounds of the model *)

MaxRoutes == 2
MaxPasses == 2

-----------------------------------------------------------------------------
(* Names and values *)

SelfClusterPrefix == "solo_io_generated_self_cluster_"
SelfListenerPrefix == "solo_io_generated_self_listener_"
PipePrefix == "@/"
StatPrefix == "soloioTcpStats"
TransportSocketTls == "envoy.transport_sockets.tls"

NilError == "nil"
EncodeError == "MessageToAny: marshal error"

\* Cluster names the input routes use: two upstreams' clusters, a name the
\* reference resolver rejects and a name of no upstream of the snapshot.
UpstreamNames == {"c1", "c2"}
MalformedName == "a_b_c"
UnknownName == "gone"
ClusterNames == UpstreamNames \cup {MalformedName, UnknownName}

GoodHostname == "internal.example.com"
\* A hostname that cannot be marshalled (not valid UTF-8).
BadHostname == "internal.example.com\\xff"

\* The tunnel SSL descriptor of an upstream (HttpConnectSslConfig).
NoSslConfig == [sni |-> "<nil>", secretRef |-> ""]
SslResolvable == [sni |-> "proxy.example.com", secretRef |-> "tls-secret"]
SslMissingSecret == [sni |-> "proxy.example.com", secretRef |-> "no-such-secret"]
SslUnencodable == [sni |-> "proxy.example.com\\xff", secretRef |-> "tls-secret"]

ConnectHeaders == <<[key |-> "X-Foo", value |-> "bar"]>>

\* The upstreams a snapshot may hold: not tunneling; tunneling, with each
\* tunnel SSL descriptor; tunneling with a hostname that cannot be encoded.
UpstreamChoices ==
    {[httpProxyHostname |-> "", httpConnectHeaders |-> << >>,
      httpConnectSslConfig |-> NoSslConfig]}
    \cup {[httpProxyHostname |-> GoodHostname, httpConnectHeaders |-> ConnectHeaders,
           httpConnectSslConfig |-> ssl] :
            ssl \in {NoSslConfig, SslResolvable, SslMissingSecret, SslUnencodable}}
    \cup {[httpProxyHostname |-> BadHostname, httpConnectHeaders |-> ConnectHeaders,
           httpConnectSslConfig |-> NoSslConfig]}

-----------------------------------------------------------------------------
(* The external collaborators *)

\* translator.ClusterToUpstreamRef: the upstream reference of a cluster name,
\* or an error for a name that is no reference.
ClusterToUpstreamRef(cluster) ==
    [err |-> cluster = MalformedName, ref |-> [name |-> cluster]]

\* upstreams.Find: the upstream of a reference, or an error.
Find(ref) ==
    IF ref.name \in DOMAIN upstreams
    THEN [err |-> FALSE, us |-> upstreams[ref.name]]
    ELSE [err |-> TRUE, us |-> [httpProxyHostname |-> "", httpConnectHeaders |-> << >>,
                                httpConnectSslConfig |-> NoSslConfig]]

\* utils.NewSslConfigTranslator().ResolveUpstreamSslConfig: the TLS context of
\* an SSL descriptor, or an error when its secret is not in the snapshot.
ResolveUpstreamSslConfig(ssl) ==
    [err |-> ssl.secretRef = SslMissingSecret.secretRef,
     cfg |-> [type |-> "UpstreamTlsContext", sni |-> ssl.sni]]

\* utils.MessageToAny: the typed-config envelope of a message, or an error
\* when the message cannot be marshalled.
MessageToAny(msg) ==
    [err |-> IF msg.type = "TcpProxy"
             THEN msg.hostname = BadHostname
             ELSE msg.sni = SslUnencodable.sni,
     any |-> [typeUrl |-> "type.googleapis.com/" \o msg.type, value |-> msg]]

-----------------------------------------------------------------------------
(* Resources *)

NilAny == [typeUrl |-> "", value |-> [type |-> "", sni |-> ""]]
NilSocket == [name |-> "", typedConfig |-> NilAny]

\* The transport socket an input cluster carries before the plugin runs.
OriginalSocket ==
    [name |-> TransportSocketTls,
     typedConfig |-> [typeUrl |-> "type.googleapis.com/UpstreamTlsContext",
                      value |-> [type |-> "UpstreamTlsContext", sni |-> "TLS-A"]]]

\* A cluster of the earlier pipeline stages.
InCluster(name, socket, matches) ==
    [name |-> name, type |-> "EDS", connectTimeout |-> 0,
     transportSocket |-> socket, transportSocketMatches |-> matches,
     pipe |-> ""]

\* What an input cluster may carry: no transport socket, or a transport
\* socket and transport-socket matches.
InClusterChoices(name) ==
    {InCluster(name, NilSocket, << >>),
     InCluster(name, OriginalSocket, <<"match">>)}

\* The actions of a route.
RouteChoices ==
    {[kind |-> "cluster", cluster |-> c] : c \in ClusterNames}
    \cup {[kind |-> "weighted_clusters", cluster |-> "c1"],
          [kind |-> "cluster_header", cluster |-> "x-cluster"]}

RECURSIVE SeqsUpTo(_, _)
SeqsUpTo(S, n) ==
    IF n = 0 THEN {<< >>}
    ELSE LET shorter == SeqsUpTo(S, n - 1)
         IN  shorter \cup {Append(s, x) : s \in {t \in shorter : Len(t) = n - 1}, x \in S}

\* The nestings of routes in virtual hosts and route configurations.
Layouts == {"one_vhost", "vhost_per_route", "config_per_route"}

Nest(flat, layout) ==
    CASE layout = "one_vhost" -> << <<flat>> >>
      [] layout = "vhost_per_route" -> << [i \in 1..Len(flat) |-> <<flat[i]>>] >>
      [] OTHER -> [i \in 1..Len(flat) |-> << <<flat[i]>> >>]

-----------------------------------------------------------------------------
(* plugin.GeneratedResources: the scan *)

RECURSIVE Concat(_)
Concat(ss) == IF ss = << >> THEN << >> ELSE Head(ss) \o Concat(Tail(ss))

\* The routes in the order the three nested range loops visit them, each as
\* <<route configuration, virtual host, route>>.
ScanOrder(rcs) ==
    LET OfVh(i, j) == [k \in 1..Len(rcs[i][j]) |-> <<i, j, k>>]
        OfRc(i) == Concat([j \in 1..Len(rcs[i]) |-> OfVh(i, j)])
    IN  Concat([i \in 1..Len(rcs) |-> OfRc(i)])

RouteAt(rcs, p) == rcs[p[1]][p[2]][p[3]]

\* rt.GetRoute().GetCluster(): the cluster of a single-cluster action, ""
\* for every other action.
GetCluster(rt) == IF rt.kind = "cluster" THEN rt.cluster ELSE ""

Scanning == pc = "scan" /\ pos <= Len(scanOrder)
CurPos == scanOrder[pos]
CurCluster == GetCluster(RouteAt(inRouteConfigurations, CurPos))
CurRef == ClusterToUpstreamRef(CurCluster)
CurFound == Find(CurRef.ref)
CurUpstream == CurFound.us

\* us.GetHttpProxyHostname().GetValue()
TunnelingHostname(us) == us.httpProxyHostname

\* The tunneling headers of an upstream's CONNECT headers.
TunnelingHeaders(us) ==
    [i \in 1..Len(us.httpConnectHeaders) |->
        [key |-> us.httpConnectHeaders[i].key,
         value |-> us.httpConnectHeaders[i].value,
         append |-> FALSE]]

SelfClusterName(cluster) == SelfClusterPrefix \o cluster
SelfPipe(cluster) == PipePrefix \o cluster
SelfListenerName(cluster) == SelfListenerPrefix \o cluster

\* A rewrite that leaves the route on the original cluster.
RewrittenActionKeepsCluster(cluster) == [kind |-> "cluster", cluster |-> cluster]

\* The action the route is given.
RewrittenAction(cluster) == [kind |-> "cluster", cluster |-> SelfClusterName(cluster)]

\* The route configurations with the current route rewritten.
RewriteRoute(cluster) ==
    [inRouteConfigurations EXCEPT
        ![CurPos[1]][CurPos[2]][CurPos[3]] = RewrittenAction(cluster)]

\* A processed set that is never consulted.
AlreadyProcessedNever(cluster) == FALSE

\* processedClusters.Has(cluster)
AlreadyProcessed(cluster) == cluster \in processedClusters

\* The index of the first input cluster of this name, 0 when there is none.
FindInCluster(cluster) ==
    LET hits == {i \in 1..Len(inClusters) : inClusters[i].name = cluster}
    IN  IF hits = {} THEN 0 ELSE CHOOSE i \in hits : \A j \in hits : i <= j

\* A relocation that leaves the transport socket on the input cluster.
ClearedClusterKeepsSocket(c) == c

\* inCluster.TransportSocket = nil; inCluster.TransportSocketMatches = nil
ClearedCluster(c) ==
    [c EXCEPT !.transportSocket = NilSocket, !.transportSocketMatches = << >>]

\* inCluster.TransportSocket = &TransportSocket{Name: tls, TypedConfig: typedConfig}
AttachedCluster(c, typedConfig) ==
    [ClearedCluster(c) EXCEPT
        !.transportSocket = [name |-> TransportSocketTls, typedConfig |-> typedConfig]]

generateSelfCluster(selfCluster, selfPipe, originalTransportSocket) ==
    [name |-> selfCluster, type |-> "STATIC", connectTimeout |-> 5,
     transportSocket |-> originalTransportSocket, transportSocketMatches |-> << >>,
     pipe |-> selfPipe]

\* A listener whose TCP proxy forwards to the self cluster, not the original.
generateForwardingTcpListenerToSelf(cluster, selfPipe, tunnelingHostname, tunnelingHeadersToAdd) ==
    LET cfg == [type |-> "TcpProxy",
                statPrefix |-> StatPrefix \o cluster,
                hostname |-> tunnelingHostname,
                headersToAdd |-> tunnelingHeadersToAdd,
                cluster |-> SelfClusterName(cluster)]
        enc == MessageToAny(cfg)
    IN  [err |-> enc.err,
         listener |-> [name |-> SelfListenerName(cluster),
                       pipe |-> selfPipe,
                       filterName |-> "tcp",
                       typedConfig |-> enc.any]]

generateForwardingTcpListener(cluster, selfPipe, tunnelingHostname, tunnelingHeadersToAdd) ==
    LET cfg == [type |-> "TcpProxy",
                statPrefix |-> StatPrefix \o cluster,
                hostname |-> tunnelingHostname,
                headersToAdd |-> tunnelingHeadersToAdd,
                cluster |-> cluster]
        enc == MessageToAny(cfg)
    IN  [err |-> enc.err,
         listener |-> [name |-> SelfListenerName(cluster),
                       pipe |-> selfPipe,
                       filterName |-> "tcp",
                       typedConfig |-> enc.any]]

\* A soft return that drops what was generated.
SoftReturnDropsGenerated == [clusters |-> << >>, listeners |-> << >>, err |-> NilError]

\* return generatedClusters, nil, nil, generatedListeners, nil
SoftReturn ==
    [clusters |-> generatedClusters, listeners |-> generatedListeners, err |-> NilError]

\* A hard return that keeps what was generated.
HardReturnKeepsGenerated ==
    [clusters |-> generatedClusters, listeners |-> generatedListeners, err |-> EncodeError]

\* return nil, nil, nil, nil, err
HardReturn == [clusters |-> << >>, listeners |-> << >>, err |-> EncodeError]

NoReturn == [clusters |-> << >>, listeners |-> << >>, err |-> "none"]

-----------------------------------------------------------------------------
(* The state before the first pass *)

NoEarlier == [clusters |-> {}, listeners |-> {}, processed |-> {}]

Init ==
    /\ inRouteConfigurations \in
          {Nest(flat, layout) : flat \in SeqsUpTo(RouteChoices, MaxRoutes),
                                layout \in Layouts}
    /\ upstreams \in [UpstreamNames -> UpstreamChoices]
    /\ inClusters \in
          {<< >>}
          \cup {<<a>> : a \in InClusterChoices("c1")}
          \cup {<<a, b>> : a \in InClusterChoices("c1"), b \in InClusterChoices("c2")}
    /\ inListeners = << >>
    /\ generatedClusters = << >>
    /\ generatedListeners = << >>
    /\ processedClusters = {}
    /\ scanOrder = ScanOrder(inRouteConfigurations)
    /\ pos = 1
    /\ pc = "scan"
    /\ ret = NoReturn
    /\ pass = 1
    /\ routes0 = inRouteConfigurations
    /\ clusters0 = inClusters
    /\ earlier = NoEarlier

-----------------------------------------------------------------------------
(* One iteration of the innermost loop, by the branch it takes *)

Snapshot == <<upstreams, inListeners, scanOrder, pass, routes0, clusters0, earlier>>
Locals == <<generatedClusters, generatedListeners, processedClusters>>

\* line 62: the action is no single cluster
SkipOtherAction ==
    /\ Scanning
    /\ CurCluster = ""
    /\ pos' = pos + 1
    /\ UNCHANGED <<inRouteConfigurations, inClusters, Locals, pc, ret, Snapshot>>

\* lines 64-69: the cluster name is no upstream reference
ReturnOnBadRef ==
    /\ Scanning
    /\ CurCluster # ""
    /\ CurRef.err
    /\ pc' = "ret68"
    /\ ret' = SoftReturn
    /\ UNCHANGED <<inRouteConfigurations, inClusters, Locals, pos, Snapshot>>

\* lines 71-76: the snapshot has no such upstream
ReturnOnUpstreamNotFound ==
    /\ Scanning
    /\ CurCluster # ""
    /\ ~CurRef.err
    /\ CurFound.err
    /\ pc' = "ret75"
    /\ ret' = SoftReturn
    /\ UNCHANGED <<inRouteConfigurations, inClusters, Locals, pos, Snapshot>>

Resolvable == Scanning /\ CurCluster # "" /\ ~CurRef.err /\ ~CurFound.err

\* A non-tunneling upstream that ends the scan.
SkipNonTunnelingReturns ==
    /\ Resolvable
    /\ CurUpstream.httpProxyHostname = ""
    /\ pc' = "ret81"
    /\ ret' = SoftReturn
    /\ UNCHANGED <<inRouteConfigurations, inClusters, Locals, pos, Snapshot>>

\* lines 79-82: the upstream is no tunneling upstream
SkipNonTunneling ==
    /\ Resolvable
    /\ TunnelingHostname(CurUpstream) = ""
    /\ pos' = pos + 1
    /\ UNCHANGED <<inRouteConfigurations, inClusters, Locals, pc, ret, Snapshot>>

Tunneling == Resolvable /\ TunnelingHostname(CurUpstream) # ""

\* A duplicate route that is skipped before it is rewritten.
RewriteOnlySkipsRewrite ==
    /\ Tunneling
    /\ AlreadyProcessed(CurCluster)
    /\ pos' = pos + 1
    /\ UNCHANGED <<inRouteConfigurations, inClusters, Locals, pc, ret, Snapshot>>

\* lines 95-104: the cluster was processed already; only the route is rewritten
RewriteOnly ==
    /\ Tunneling
    /\ AlreadyProcessed(CurCluster)
    /\ inRouteConfigurations' = RewriteRoute(CurCluster)
    /\ pos' = pos + 1
    /\ UNCHANGED <<inClusters, Locals, pc, ret, Snapshot>>

FirstRoute == Tunneling /\ ~AlreadyProcessed(CurCluster)
CurIdx == FindInCluster(CurCluster)
CurSsl == CurUpstream.httpConnectSslConfig
\* line 119: the cluster is an input cluster and the upstream has a tunnel SSL config
NeedsSsl == CurIdx # 0 /\ CurSsl # NoSslConfig
ResolvedSsl == ResolveUpstreamSslConfig(CurSsl)
EncodedSsl == MessageToAny(ResolvedSsl.cfg)
CurListener ==
    generateForwardingTcpListener(CurCluster, SelfPipe(CurCluster),
                                  TunnelingHostname(CurUpstream),
                                  TunnelingHeaders(CurUpstream))

\* The input clusters when the loop of lines 106-139 returns from inside.
ClustersCleared == [inClusters EXCEPT ![CurIdx] = ClearedCluster(@)]

\* The input clusters when the loop of lines 106-139 ends.
ClustersRelocated ==
    IF CurIdx = 0 THEN inClusters
    ELSE IF NeedsSsl
         THEN [inClusters EXCEPT ![CurIdx] = AttachedCluster(@, EncodedSsl.any)]
         ELSE ClustersCleared

\* A transport socket recorded after the cluster was given its new one.
RecordedSocketAfterRelocation(idx) ==
    IF idx = 0 THEN NilSocket ELSE ClustersRelocated[idx].transportSocket

\* lines 105-111, originalTransportSocket: a copy of the cluster's transport socket
RecordedSocket(idx) ==
    IF idx = 0 THEN NilSocket ELSE inClusters[idx].transportSocket

\* lines 123-128: the tunnel SSL config does not resolve
ReturnOnSslResolveFailure ==
    /\ FirstRoute
    /\ NeedsSsl
    /\ ResolvedSsl.err
    /\ inRouteConfigurations' = RewriteRoute(CurCluster)
    /\ inClusters' = ClustersCleared
    /\ pc' = "ret127"
    /\ ret' = SoftReturn
    /\ UNCHANGED <<Locals, pos, Snapshot>>

\* lines 129-132: the resolved TLS context cannot be encoded
ReturnOnSslEncodeError ==
    /\ FirstRoute
    /\ NeedsSsl
    /\ ~ResolvedSsl.err
    /\ EncodedSsl.err
    /\ inRouteConfigurations' = RewriteRoute(CurCluster)
    /\ inClusters' = ClustersCleared
    /\ pc' = "ret131"
    /\ ret' = HardReturn
    /\ UNCHANGED <<Locals, pos, Snapshot>>

SslDone == FirstRoute /\ (NeedsSsl => ~ResolvedSsl.err /\ ~EncodedSsl.err)

\* lines 140-144: the TCP proxy config of the listener cannot be encoded
ReturnOnListenerEncodeError ==
    /\ SslDone
    /\ CurListener.err
    /\ inRouteConfigurations' = RewriteRoute(CurCluster)
    /\ inClusters' = ClustersRelocated
    /\ generatedClusters' =
          Append(generatedClusters,
                 generateSelfCluster(SelfClusterName(CurCluster), SelfPipe(CurCluster),
                                     RecordedSocket(CurIdx)))
    /\ pc' = "ret143"
    /\ ret' = HardReturn
    /\ UNCHANGED <<generatedListeners, processedClusters, pos, Snapshot>>

\* lines 95-146: the first route of a tunneling cluster
GenerateResources ==
    /\ SslDone
    /\ ~CurListener.err
    /\ inRouteConfigurations' = RewriteRoute(CurCluster)
    /\ inClusters' = ClustersRelocated
    /\ generatedClusters' =
          Append(generatedClusters,
                 generateSelfCluster(SelfClusterName(CurCluster), SelfPipe(CurCluster),
                                     RecordedSocket(CurIdx)))
    /\ generatedListeners' = Append(generatedListeners, CurListener.listener)
    /\ processedClusters' = processedClusters \cup {CurCluster}
    /\ pos' = pos + 1
    /\ UNCHANGED <<pc, ret, Snapshot>>

\* line 152: the loops are over
ReturnAtEnd ==
    /\ pc = "scan"
    /\ pos > Len(scanOrder)
    /\ pc' = "ret152"
    /\ ret' = SoftReturn
    /\ UNCHANGED <<inRouteConfigurations, inClusters, Locals, pos, Snapshot>>

Returned == pc # "scan"

\* The names of a sequence of resources.
Names(rs) == {rs[i].name : i \in 1..Len(rs)}

\* The translation runs again on its own result: the rewritten route
\* configurations, and the clusters and listeners with the generated ones.
NextPass ==
    /\ Returned
    /\ ret.err = NilError
    /\ pass < MaxPasses
    /\ inClusters' = inClusters \o ret.clusters
    /\ inListeners' = inListeners \o ret.listeners
    /\ earlier' = [clusters |-> earlier.clusters \cup Names(ret.clusters),
                   listeners |-> earlier.listeners \cup Names(ret.listeners),
                   processed |-> earlier.processed \cup processedClusters]
    /\ generatedClusters' = << >>
    /\ generatedListeners' = << >>
    /\ processedClusters' = {}
    /\ scanOrder' = ScanOrder(inRouteConfigurations)
    /\ pos' = 1
    /\ pc' = "scan"
    /\ ret' = NoReturn
    /\ pass' = pass + 1
    /\ routes0' = inRouteConfigurations
    /\ clusters0' = inClusters'
    /\ UNCHANGED <<inRouteConfigurations, upstreams>>

Next ==
    \/ SkipOtherAction
    \/ ReturnOnBadRef
    \/ ReturnOnUpstreamNotFound
    \/ SkipNonTunneling
    \/ RewriteOnly
    \/ ReturnOnSslResolveFailure
    \/ ReturnOnSslEncodeError
    \/ ReturnOnListenerEncodeError
    \/ GenerateResources
    \/ ReturnAtEnd
    \/ NextPass

Spec == Init /\ [][Next]_vars

-----------------------------------------------------------------------------
(* Vocabulary of the properties *)

NumRoutes == Len(scanOrder)
\* The i-th route in scan order, when the pass began and now.
Orig(i) == RouteAt(routes0, scanOrder[i])
Now(i) == RouteAt(inRouteConfigurations, scanOrder[i])

\* Resolving the route's cluster to an upstream fails.
RefFails(rt) ==
    /\ GetCluster(rt) # ""
    /\ \/ ClusterToUpstreamRef(GetCluster(rt)).err
       \/ Find(ClusterToUpstreamRef(GetCluster(rt)).ref).err

UpstreamOf(c) == Find(ClusterToUpstreamRef(c).ref).us

\* A single-cluster action whose upstream has a non-empty tunneling hostname.
Eligible(rt) ==
    /\ GetCluster(rt) # ""
    /\ ~RefFails(rt)
    /\ UpstreamOf(GetCluster(rt)).httpProxyHostname # ""

\* The original cluster names of the eligible routes among the first n.
EligibleNames(n) ==
    {GetCluster(Orig(i)) : i \in {j \in 1..NumRoutes : j <= n /\ Eligible(Orig(j))}}

\* The routes the scan came to: all before pos, and the one at pos when the
\* pass returned from inside the loops.
Reached(i) == i \in 1..NumRoutes /\ i <= pos

InputNames == Names(clusters0)
ClusterBefore(c) == clusters0[CHOOSE i \in 1..Len(clusters0) : clusters0[i].name = c]
ClusterNow(c) == inClusters[CHOOSE i \in 1..Len(inClusters) : inClusters[i].name = c]
\* The transport socket cluster c had when the pass began.
SocketBefore(c) == IF c \in InputNames THEN ClusterBefore(c).transportSocket ELSE NilSocket

\* The transport socket the pass attaches for a tunnel SSL config.
TunnelSocket(ssl) ==
    [name |-> TransportSocketTls,
     typedConfig |-> MessageToAny(ResolveUpstreamSslConfig(ssl).cfg).any]

SslFails(ssl) ==
    ssl # NoSslConfig
    /\ (ResolveUpstreamSslConfig(ssl).err
        \/ MessageToAny(ResolveUpstreamSslConfig(ssl).cfg).err)

HardReturned == pc \in {"ret131", "ret143"}

AllDistinct(rs) == \A i, j \in 1..Len(rs) : rs[i].name = rs[j].name => i = j

-----------------------------------------------------------------------------
(* C1 *)

\* C1: a pass in which no parse, lookup, TLS-resolution or encoding failure
\* occurs returns exactly one self cluster and exactly one self listener for
\* every distinct cluster name an eligible route targets, and nothing else.
C1_OnePairPerCluster ==
    pc = "ret152" =>
        /\ Names(ret.clusters) = {SelfClusterName(c) : c \in EligibleNames(NumRoutes)}
        /\ Names(ret.listeners) = {SelfListenerName(c) : c \in EligibleNames(NumRoutes)}
        /\ AllDistinct(ret.clusters)
        /\ AllDistinct(ret.listeners)

\* Two routes, of two virtual hosts or route configurations, target one
\* tunneling cluster and the pass returned one pair.
C1_Witness ==
    /\ pc = "ret152"
    /\ NumRoutes >= 2
    /\ Eligible(Orig(1))
    /\ Orig(2) = Orig(1)
    /\ scanOrder[1][1] # scanOrder[2][1]
    /\ Len(ret.clusters) = 1
    /\ Len(ret.listeners) = 1

-----------------------------------------------------------------------------
(* C2 *)

\* C2 as stated: after a pass every eligible route of the input is rewritten
\* to the self cluster of its original cluster.  Stated of the passes that
\* end at a reference or lookup failure or at the end of the loops, where no
\* SSL config and no encoding fails.
C2_AllEligibleRewritten ==
    pc \in {"ret68", "ret75", "ret152"} =>
        \A i \in 1..NumRoutes :
            Eligible(Orig(i)) => Now(i) = RewrittenAction(GetCluster(Orig(i)))

\* C2 amended: after a pass every eligible route the scan came to is
\* rewritten to the self cluster of its original cluster, duplicates
\* included, and every route after the one the pass returned at is as it was.
C2_ReachedEligibleRewritten ==
    Returned =>
        \A i \in 1..NumRoutes :
            /\ (Reached(i) /\ Eligible(Orig(i)))
                   => Now(i) = RewrittenAction(GetCluster(Orig(i)))
            /\ ~Reached(i) => Now(i) = Orig(i)

\* The second route of a tunneling cluster was rewritten although nothing
\* was generated for it.
C2_Witness ==
    /\ Returned
    /\ NumRoutes >= 2
    /\ pos > 2
    /\ Eligible(Orig(1))
    /\ Orig(2) = Orig(1)
    /\ Now(2) = RewrittenAction(GetCluster(Orig(2)))
    /\ Len(generatedClusters) = 1

-----------------------------------------------------------------------------
(* C3 *)

\* C3: every returned self cluster carries the transport socket its original
\* cluster had when the pass began (none when it had none or is no input
\* cluster), not the one the pass attached to the original cluster.
C3_SelfClusterCarriesOriginalSocket ==
    Returned =>
        \A i \in 1..Len(ret.clusters) :
            \E c \in EligibleNames(NumRoutes) :
                /\ ret.clusters[i].name = SelfClusterName(c)
                /\ ret.clusters[i].transportSocket = SocketBefore(c)

\* Two routes target a cluster whose upstream has a tunnel SSL config: the
\* cluster now carries the tunnel socket and the self cluster the original.
C3_Witness ==
    /\ pc = "ret152"
    /\ NumRoutes >= 2
    /\ Eligible(Orig(1))
    /\ Orig(2) = Orig(1)
    /\ GetCluster(Orig(1)) \in InputNames
    /\ UpstreamOf(GetCluster(Orig(1))).httpConnectSslConfig = SslResolvable
    /\ SocketBefore(GetCluster(Orig(1))) = OriginalSocket
    /\ ClusterNow(GetCluster(Orig(1))).transportSocket = TunnelSocket(SslResolvable)
    /\ Len(ret.clusters) = 1
    /\ ret.clusters[1].transportSocket = OriginalSocket

-----------------------------------------------------------------------------
(* C4 *)

\* The input clusters an eligible route the scan came to targets.
ProcessedInputs == {c \in EligibleNames(pos) : c \in InputNames}

\* C4 as stated: after a pass, an input cluster that an eligible route the
\* pass processed targets has no transport socket and no transport-socket
\* matches when its upstream has no tunnel SSL config, and the resolved
\* tunnel socket when it has one.  Stated of the passes that do not end at
\* an SSL config that fails to resolve (line 127).
C4_SocketEmptyOrTunnel ==
    (Returned /\ pc # "ret127") =>
        \A c \in ProcessedInputs :
            LET ssl == UpstreamOf(c).httpConnectSslConfig
            IN  /\ ClusterNow(c).transportSocketMatches = << >>
                /\ ClusterNow(c).transportSocket =
                       IF ssl = NoSslConfig THEN NilSocket ELSE TunnelSocket(ssl)

\* C4 amended: ... the resolved tunnel socket when it has one that resolves
\* and encodes, and no transport socket when resolving or encoding it fails.
C4_SocketEmptyOrTunnelUnlessSslFails ==
    Returned =>
        \A c \in ProcessedInputs :
            LET ssl == UpstreamOf(c).httpConnectSslConfig
            IN  /\ ClusterNow(c).transportSocketMatches = << >>
                /\ ClusterNow(c).transportSocket =
                       IF ssl = NoSslConfig \/ SslFails(ssl)
                       THEN NilSocket ELSE TunnelSocket(ssl)

\* One processed cluster lost its socket and its matches, another was given
\* the tunnel socket.
C4_Witness ==
    /\ pc = "ret152"
    /\ \E c \in ProcessedInputs :
          /\ ClusterBefore(c).transportSocket = OriginalSocket
          /\ ClusterBefore(c).transportSocketMatches # << >>
          /\ UpstreamOf(c).httpConnectSslConfig = NoSslConfig
          /\ ClusterNow(c).transportSocket = NilSocket
    /\ \E c \in ProcessedInputs :
          /\ ClusterBefore(c).transportSocket = OriginalSocket
          /\ UpstreamOf(c).httpConnectSslConfig = SslResolvable
          /\ ClusterNow(c).transportSocket = TunnelSocket(SslResolvable)

-----------------------------------------------------------------------------
(* C5 *)

\* C5: the scan never goes past a route whose cluster does not resolve to an
\* upstream; the pass returns there with a nil error and exactly the pairs
\* generated for the eligible routes before it, and every route at or after
\* it is as it was, the eligible ones too.
C5_AbortOnFirstFailure ==
    /\ \A i \in 1..NumRoutes : (i < pos \/ pc = "ret152") => ~RefFails(Orig(i))
    /\ (pos <= NumRoutes /\ RefFails(Orig(pos))) => pc \in {"scan", "ret68", "ret75"}
    /\ pc \in {"ret68", "ret75"} =>
          /\ RefFails(Orig(pos))
          /\ ret.err = NilError
          /\ Names(ret.clusters) = {SelfClusterName(c) : c \in EligibleNames(pos - 1)}
          /\ Names(ret.listeners) = {SelfListenerName(c) : c \in EligibleNames(pos - 1)}
          /\ AllDistinct(ret.clusters)
          /\ AllDistinct(ret.listeners)
          /\ \A i \in pos..NumRoutes : Now(i) = Orig(i)

\* The pass returned at a failing second route with the pair of the first.
C5_Witness ==
    /\ pc \in {"ret68", "ret75"}
    /\ pos = 2
    /\ Eligible(Orig(1))
    /\ Len(ret.clusters) = 1
    /\ Len(ret.listeners) = 1
    /\ ret.err = NilError

-----------------------------------------------------------------------------
(* C6 *)

\* Encoding fails for the first route of tunneling cluster c: its tunnel SSL
\* config resolves and cannot be encoded, or the TCP proxy config cannot.
EncodeFails(c) ==
    LET us == UpstreamOf(c)
        ssl == us.httpConnectSslConfig
        withSsl == c \in Names(inClusters) /\ ssl # NoSslConfig
    IN  \/ withSsl /\ ~ResolveUpstreamSslConfig(ssl).err
                   /\ MessageToAny(ResolveUpstreamSslConfig(ssl).cfg).err
        \/ (withSsl => ~SslFails(ssl))
           /\ generateForwardingTcpListener(c, SelfPipe(c), us.httpProxyHostname,
                                            TunnelingHeaders(us)).err

\* C6: a pass returns a non-nil error exactly when an encoding fails, and
\* then returns no generated cluster and no generated listener; the scan
\* never goes past a route an encoding fails for.
C6_HardErrorIffEncodeFails ==
    /\ Returned =>
          (ret.err # NilError <=>
              /\ pos <= NumRoutes
              /\ Eligible(Orig(pos))
              /\ GetCluster(Orig(pos)) \notin processedClusters
              /\ EncodeFails(GetCluster(Orig(pos))))
    /\ (Returned /\ ret.err # NilError) => (ret.clusters = << >> /\ ret.listeners = << >>)
    /\ \A i \in 1..NumRoutes :
          ((i < pos \/ pc = "ret152") /\ Eligible(Orig(i)))
              => ~EncodeFails(GetCluster(Orig(i)))

\* An encoding failed after a pair was generated for an earlier cluster.
C6_Witness ==
    /\ HardReturned
    /\ ret.err = EncodeError
    /\ Len(generatedListeners) >= 1
    /\ ret.clusters = << >>
    /\ ret.listeners = << >>

-----------------------------------------------------------------------------
(* C7 *)

\* The scan is at a route that is not eligible and whose cluster, if it has
\* one, resolves.
AtIneligible ==
    /\ Scanning
    /\ ~RefFails(Orig(pos))
    /\ ~Eligible(Orig(pos))

\* A route that is not eligible is as it was when the pass began, and so is
\* the input cluster of a non-tunneling upstream that it targets.
IneligibleAsBefore ==
    \A i \in 1..NumRoutes :
        (~RefFails(Orig(i)) /\ ~Eligible(Orig(i))) =>
            /\ Now(i) = Orig(i)
            /\ (GetCluster(Orig(i)) \in InputNames) =>
                   ClusterNow(GetCluster(Orig(i))) = ClusterBefore(GetCluster(Orig(i)))

\* C7: a route that is not eligible stays as it was and its input cluster
\* keeps its transport socket; the step of the scan at such a route changes
\* no route, no input cluster and nothing generated, and moves the scan to
\* the next route.
C7_IneligibleRouteUntouched ==
    /\ []IneligibleAsBefore
    /\ [][AtIneligible =>
              /\ inRouteConfigurations' = inRouteConfigurations
              /\ inClusters' = inClusters
              /\ generatedClusters' = generatedClusters
              /\ generatedListeners' = generatedListeners
              /\ processedClusters' = processedClusters
              /\ pc' = "scan"
              /\ pos' = pos + 1]_vars

\* The scan passed a weighted route and a route of a non-tunneling upstream
\* whose input cluster has a transport socket, and both are as they were.
C7_Witness ==
    /\ pc = "ret152"
    /\ NumRoutes = 2
    /\ Orig(1).kind = "weighted_clusters"
    /\ Orig(2).kind = "cluster"
    /\ ~RefFails(Orig(2))
    /\ ~Eligible(Orig(2))
    /\ Orig(2).cluster \in InputNames
    /\ ClusterNow(Orig(2).cluster).transportSocket = OriginalSocket
    /\ Now(1) = Orig(1)
    /\ Now(2) = Orig(2)
    /\ ret.clusters = << >>

-----------------------------------------------------------------------------
(* C8 *)

DoublyPrefixed == {SelfClusterName(SelfClusterName(c)) : c \in ClusterNames}

\* C8: a pass run on the result of the earlier passes returns no self cluster
\* and no self listener for a cluster an earlier pass processed, and leaves
\* no route on a doubly prefixed self cluster name.
C8_NoRegeneration ==
    (pass > 1) =>
        /\ \A c \in earlier.processed :
              /\ SelfClusterName(c) \notin Names(generatedClusters)
              /\ SelfListenerName(c) \notin Names(generatedListeners)
              /\ SelfClusterName(c) \notin Names(ret.clusters)
              /\ SelfListenerName(c) \notin Names(ret.listeners)
        /\ \A i \in 1..NumRoutes : GetCluster(Now(i)) \notin DoublyPrefixed

\* The second pass returned, over a route the first pass had rewritten.
C8_Witness ==
    /\ pass = 2
    /\ Returned
    /\ earlier.processed # {}
    /\ \E i \in 1..NumRoutes :
          GetCluster(Orig(i)) \in {SelfClusterName(c) : c \in earlier.processed}

-----------------------------------------------------------------------------
(* C9 *)

\* The i-th returned cluster and the i-th returned listener are the loopback
\* pair of original cluster c.
LoopbackPair(i, c) ==
    /\ ret.clusters[i].name = SelfClusterName(c)
    /\ ret.listeners[i].name = SelfListenerName(c)
    /\ ret.clusters[i].pipe = PipePrefix \o c
    /\ ret.listeners[i].pipe = PipePrefix \o c
    /\ ret.listeners[i].typedConfig.value.cluster = c

\* C9: at every return the generated clusters and listeners are loopback
\* pairs, one pair for each original cluster: both bound to "@/" and the
\* original cluster name, the listener forwarding to the original cluster.
C9_ClosedLoopbackPairs ==
    Returned =>
        /\ Len(ret.clusters) = Len(ret.listeners)
        /\ \A i \in 1..Len(ret.clusters) : \E c \in ClusterNames : LoopbackPair(i, c)
        /\ AllDistinct(ret.clusters)
        /\ AllDistinct(ret.listeners)

\* A pass returned the pairs of two clusters.
C9_Witness ==
    /\ Returned
    /\ Len(ret.clusters) = 2
    /\ LoopbackPair(1, "c1") \/ LoopbackPair(1, "c2")

-----------------------------------------------------------------------------
(* C10 *)

\* C10: after a pass that returns no error, every route the pass rewrote has
\* its self cluster and the matching self listener among the returned
\* resources, and every input cluster the pass took the transport socket of
\* has that socket on a returned self cluster.
C10_ModifiedInputsCanRoute ==
    (Returned /\ ret.err = NilError) =>
        /\ \A i \in 1..NumRoutes :
              Now(i) # Orig(i) =>
                  /\ Now(i).cluster = SelfClusterName(GetCluster(Orig(i)))
                  /\ Now(i).cluster \in Names(ret.clusters)
                  /\ SelfListenerName(GetCluster(Orig(i))) \in Names(ret.listeners)
        /\ \A c \in InputNames :
              ClusterNow(c).transportSocket # ClusterBefore(c).transportSocket =>
                  \E i \in 1..Len(ret.clusters) :
                      /\ ret.clusters[i].name = SelfClusterName(c)
                      /\ ret.clusters[i].transportSocket = ClusterBefore(c).transportSocket

====
